---- MODULE Spec2Model ----
(***************************************************************************)
(* A model of mlblocks/ml_pipeline/ml_pipeline.py: the MLPipeline class.   *)
(*                                                                         *)
(* A pipeline owns steps_dict (an insertion-ordered dict, step name ->     *)
(* step) and dataflow (a list of step names).  A step carries its name,    *)
(* its fixed hyperparameters (param name -> value), its tunable            *)
(* hyperparameters (param name -> MLHyperparam object) and its model.  The *)
(* model is opaque to the pipeline; what the pipeline decides is which     *)
(* keyword arguments the model is (re)built from, so `model` records       *)
(* exactly those.  fit and produce of a step are external: they are        *)
(* recorded in a call log, and produce's output is an uninterpreted term   *)
(* (the input with the step's name appended).                              *)
(***************************************************************************)
EXTENDS Naturals, Sequences, FiniteSets, TLC

VARIABLES steps_dict, dataflow, files, last, calls, rebuilds, io

vars == <<steps_dict, dataflow, files, last, calls, rebuilds, io>>

(***************************************************************************)
(* Bounds of the model and the small sets the inputs are drawn from.       *)
(***************************************************************************)
MaxSteps == 2
MaxFlow == 2
MaxEntries == 2
MaxNames == 2

StepNames == {"a", "a_"}
TunableNames == {"b", "_b"}
FixedNames == {"k", "m"}
FitParamNames == {"w"}
Values == {0, 1}
Inputs == {<<"x">>, <<"u">>}
Labels == {"y"}
JsonNames == {"p", "q", "r", "s"}
\* an optional argument: None, or a value
None == [is_none |-> TRUE]
Some(v) == [is_none |-> FALSE, value |-> v]

(***************************************************************************)
(* Python dicts with hashable keys, as functions; the empty dict.          *)
(***************************************************************************)
EmptyMap == [k \in {} |-> 0]

Put(m, k, v) == [q \in (DOMAIN m) \cup {k} |-> IF q = k THEN v ELSE m[q]]

RECURSIVE KeyList(_)
KeyList(S) == IF S = {} THEN <<>>
              ELSE LET k == CHOOSE q \in S : TRUE IN <<k>> \o KeyList(S \ {k})

\* list(d.values()): the values of a dict as a list
ValuesList(m) == LET ks == KeyList(DOMAIN m) IN [i \in DOMAIN ks |-> m[ks[i]]]

\* Sequences over S of length lo..hi
SeqsUpTo(S, lo, hi) == UNION {[1..n -> S] : n \in lo..hi}

(***************************************************************************)
(* MLHyperparam objects and steps (MLBlock), as the parsers build them.    *)
(***************************************************************************)
HP(s, p, v) == [step_name |-> s, param_name |-> p, value |-> v]

Kwargs(fixed, tunable) == [fixed |-> fixed, tunable |-> tunable]

Block(n, fixed, tunable) ==
    [name |-> n, fixed_hyperparams |-> fixed, tunable_hyperparams |-> tunable,
     model |-> Kwargs(fixed, tunable)]

\* The blocks offered to the constructor carry tunable hyperparameters only:
\* every fixed hyperparameter of the model is one update_fixed_hyperparams set.
Blocks ==
    { Block("a", EmptyMap, Put(EmptyMap, "_b", HP("a", "_b", 0))),
      Block("a", EmptyMap,
            Put(Put(EmptyMap, "b", HP("a", "b", 0)), "_b", HP("a", "_b", 1))),
      Block("a_", EmptyMap, Put(EmptyMap, "b", HP("a_", "b", 1))),
      Block("a_", EmptyMap, Put(EmptyMap, "b", HP("a_", "b", 0))) }

(***************************************************************************)
(* steps_dict: an insertion-ordered dict, kept as the list of its values   *)
(* in insertion order (each step carries its key, step.name).              *)
(***************************************************************************)
Keys(sd) == {sd[i].name : i \in DOMAIN sd}

IndexOf(sd, name) == CHOOSE i \in DOMAIN sd : sd[i].name = name

Lookup(sd, name) == sd[IndexOf(sd, name)]

\* d[key] = step: a new key is appended, an existing key keeps its place
DictSet(sd, step) ==
    IF step.name \in Keys(sd) THEN [sd EXCEPT ![IndexOf(sd, step.name)] = step]
    ELSE Append(sd, step)

RECURSIVE DictFromSteps(_, _)
DictFromSteps(steps, i) ==
    IF i = 0 THEN <<>> ELSE DictSet(DictFromSteps(steps, i - 1), steps[i])

\* MLPipeline.__init__
MLPipelineInit(steps, flow) ==
    [steps_dict |-> DictFromSteps(steps, Len(steps)),
     dataflow |-> IF ~flow.is_none THEN flow.value
                  ELSE [i \in DOMAIN steps |-> steps[i].name]]

(***************************************************************************)
(* Step.update_model(fixed, tunable): the step rebuilds its model from the *)
(* fixed and tunable hyperparameters it is handed.                         *)
(***************************************************************************)
update_model(step, fixed, tunable) == [step EXCEPT !.model = Kwargs(fixed, tunable)]

\* a tunable rebuild that passes the fixed hyperparameters too
RebuildFromFixedAndTunable(step) ==
    [step EXCEPT !.model = Kwargs(step.fixed_hyperparams, step.tunable_hyperparams)]

\* step.model = step.model.__class__(**step.tunable_hyperparams)
RebuildFromTunable(step) ==
    [step EXCEPT !.model = Kwargs(EmptyMap, step.tunable_hyperparams)]

Outcome(sd, log, status, err) ==
    [steps_dict |-> sd, rebuilds |-> log, status |-> status, err |-> err]

Rebuilt(step, via) ==
    [step |-> step.name, via |-> via, kwargs |-> step.model]

(***************************************************************************)
(* update_fixed_hyperparams: the dict is iterated in insertion order, so   *)
(* the argument is the list of its items, the keys pairwise distinct.      *)
(***************************************************************************)
\* an update that replaces the step's fixed hyperparameters by the one set
SetFixedOnly(step, name, value) ==
    [step EXCEPT !.fixed_hyperparams = Put(EmptyMap, name, value)]

SetFixed(step, name, value) ==
    [step EXCEPT !.fixed_hyperparams = Put(@, name, value)]

RECURSIVE UpdateFixedLoop(_, _, _, _)
UpdateFixedLoop(sd, log, entries, i) ==
    IF i > Len(entries) THEN Outcome(sd, log, "ok", "")
    ELSE LET e == entries[i] IN
         IF e.step_name \notin Keys(sd)
         THEN Outcome(sd, log, "KeyError", e.step_name)
         ELSE LET step == SetFixed(Lookup(sd, e.step_name), e.param_name, e.value)
                  done == update_model(step, step.fixed_hyperparams,
                                       step.tunable_hyperparams)
              IN UpdateFixedLoop(DictSet(sd, done),
                                 Append(log, Rebuilt(done, "update_model")),
                                 entries, i + 1)

update_fixed_hyperparams(sd, entries) == UpdateFixedLoop(sd, <<>>, entries, 1)

(***************************************************************************)
(* update_tunable_hyperparams                                              *)
(***************************************************************************)
SetTunable(step, hyperparam) ==
    [step EXCEPT !.tunable_hyperparams = Put(@, hyperparam.param_name, hyperparam)]

RECURSIVE RebuildAll(_, _, _)
RebuildAll(sd, log, i) ==
    IF i > Len(sd) THEN Outcome(sd, log, "ok", "")
    ELSE LET done == RebuildFromTunable(sd[i]) IN
         RebuildAll([sd EXCEPT ![i] = done],
                    Append(log, Rebuilt(done, "__class__")), i + 1)

\* an update that rebuilds each updated step as it goes, and no other
RECURSIVE EagerLoop(_, _, _, _)
EagerLoop(sd, log, hs, i) ==
    IF i > Len(hs) THEN Outcome(sd, log, "ok", "")
    ELSE LET h == hs[i] IN
         IF h.step_name \notin Keys(sd)
         THEN Outcome(sd, log, "KeyError", h.step_name)
         ELSE LET done == RebuildFromTunable(SetTunable(Lookup(sd, h.step_name), h)) IN
              EagerLoop(DictSet(sd, done), Append(log, Rebuilt(done, "__class__")),
                        hs, i + 1)

UpdateTunableEager(sd, hs, i) == EagerLoop(sd, <<>>, hs, i)

RECURSIVE UpdateTunableLoop(_, _, _)
UpdateTunableLoop(sd, hs, i) ==
    IF i > Len(hs) THEN RebuildAll(sd, <<>>, 1)
    ELSE LET h == hs[i] IN
         IF h.step_name \notin Keys(sd)
         THEN Outcome(sd, <<>>, "KeyError", h.step_name)
         ELSE UpdateTunableLoop(DictSet(sd, SetTunable(Lookup(sd, h.step_name), h)),
                                hs, i + 1)

update_tunable_hyperparams(sd, hs) == UpdateTunableLoop(sd, hs, 1)

(***************************************************************************)
(* The getters                                                             *)
(***************************************************************************)
get_fixed_hyperparams(sd) ==
    LET keys == UNION {{<<sd[i].name, hp_name>> : hp_name \in DOMAIN sd[i].fixed_hyperparams} :
                       i \in DOMAIN sd}
    IN [k \in keys |-> Lookup(sd, k[1]).fixed_hyperparams[k[2]]]

RECURSIVE TunableFrom(_, _)
TunableFrom(sd, i) ==
    IF i > Len(sd) THEN <<>>
    ELSE ValuesList(sd[i].tunable_hyperparams) \o TunableFrom(sd, i + 1)

get_tunable_hyperparams(sd) == TunableFrom(sd, 1)

(***************************************************************************)
(* set_from_hyperparam_dict: hp.value is assigned on the objects the steps *)
(* hold, then the whole list goes through update_tunable_hyperparams.      *)
(***************************************************************************)
AssignValue(hp, hyperparam_dict) ==
    IF hp.param_name \in DOMAIN hyperparam_dict
    THEN [hp EXCEPT !.value = hyperparam_dict[hp.param_name]]
    ELSE hp

\* an assignment that reaches the first step only
AssignValuesFirstStep(sd, hyperparam_dict) ==
    [i \in DOMAIN sd |->
        IF i # 1 THEN sd[i]
        ELSE [sd[i] EXCEPT !.tunable_hyperparams =
                 [p \in DOMAIN @ |-> AssignValue(@[p], hyperparam_dict)]]]

AssignValues(sd, hyperparam_dict) ==
    [i \in DOMAIN sd |->
        [sd[i] EXCEPT !.tunable_hyperparams =
            [p \in DOMAIN @ |-> AssignValue(@[p], hyperparam_dict)]]]

set_from_hyperparam_dict(sd, hyperparam_dict) ==
    LET assigned == AssignValues(sd, hyperparam_dict)
    IN update_tunable_hyperparams(assigned, get_tunable_hyperparams(assigned))

(***************************************************************************)
(* to_dict: '{0}__{1}'.format(step_name, param_name) -> value; a dict      *)
(* comprehension, so a later item with an equal key replaces an earlier.   *)
(***************************************************************************)
FormatKey(step_name, param_name) == step_name \o "__" \o param_name

RECURSIVE DictOfList(_, _)
DictOfList(hs, i) ==
    IF i = 0 THEN EmptyMap
    ELSE Put(DictOfList(hs, i - 1),
             FormatKey(hs[i].step_name, hs[i].param_name), hs[i].value)

to_dict(sd) == LET all == get_tunable_hyperparams(sd) IN DictOfList(all, Len(all))

(***************************************************************************)
(* fit and predict.  step.fit and step.produce are the steps' own: each    *)
(* call is logged with what it was handed, and produce returns a term that *)
(* names the step and its input.                                           *)
(***************************************************************************)
Produce(step, data) == Append(data, step.name)

\* a fit call that drops the step's keyword arguments
FitCallWithoutParams(step, data, y, kwargs) ==
    [op |-> "fit", step |-> step.name, data |-> data, y |-> y, kwargs |-> EmptyMap,
     out |-> <<>>]

FitCall(step, data, y, kwargs) ==
    [op |-> "fit", step |-> step.name, data |-> data, y |-> y, kwargs |-> kwargs,
     out |-> <<>>]

ProduceCall(step, data) ==
    [op |-> "produce", step |-> step.name, data |-> data, y |-> "", kwargs |-> EmptyMap,
     out |-> Produce(step, data)]

Ran(log, status, err, ret) == [calls |-> log, status |-> status, err |-> err, ret |-> ret]

Range(seq) == {seq[i] : i \in DOMAIN seq}

\* param_dict[name][param] = fit_params[key], for each key of fit_params
RECURSIVE ParamDictLoop(_, _, _)
ParamDictLoop(param_dict, fit_params, i) ==
    IF i > Len(fit_params) THEN [status |-> "ok", err |-> "", param_dict |-> param_dict]
    ELSE LET e == fit_params[i] IN
         IF e.step_name \notin DOMAIN param_dict
         THEN [status |-> "KeyError", err |-> e.step_name, param_dict |-> param_dict]
         ELSE ParamDictLoop([param_dict EXCEPT ![e.step_name] = Put(@, e.param_name, e.value)],
                            fit_params, i + 1)

RECURSIVE FitLoop(_, _, _, _, _, _, _)
FitLoop(sd, flow, param_dict, y, transformed_data, log, i) ==
    IF i > Len(flow) THEN Ran(log, "ok", "", None)
    ELSE IF flow[i] \notin Keys(sd) THEN Ran(log, "KeyError", flow[i], None)
    ELSE LET step == Lookup(sd, flow[i]) IN
         FitLoop(sd, flow, param_dict, y, Produce(step, transformed_data),
                 log \o <<FitCall(step, transformed_data, y, param_dict[flow[i]]),
                          ProduceCall(step, transformed_data)>>,
                 i + 1)

fit(sd, flow, x, y, fit_params) ==
    LET pd == ParamDictLoop([n \in Range(flow) |-> EmptyMap], fit_params, 1) IN
    IF pd.status # "ok" THEN Ran(<<>>, pd.status, pd.err, None)
    ELSE FitLoop(sd, flow, pd.param_dict, y, x, <<>>, 1)

RECURSIVE PredictLoop(_, _, _, _, _)
PredictLoop(sd, flow, transformed_data, log, i) ==
    IF i > Len(flow) THEN Ran(log, "ok", "", Some(transformed_data))
    ELSE IF flow[i] \notin Keys(sd) THEN Ran(log, "KeyError", flow[i], None)
    ELSE LET step == Lookup(sd, flow[i]) IN
         PredictLoop(sd, flow, Produce(step, transformed_data),
                     Append(log, ProduceCall(step, transformed_data)), i + 1)

\* a predict that walks steps_dict instead of the dataflow
predict_over_steps_dict(sd, flow, x) ==
    PredictLoop(sd, [i \in DOMAIN sd |-> sd[i].name], x, <<>>, 1)

predict(sd, flow, x) == PredictLoop(sd, flow, x, <<>>, 1)

(***************************************************************************)
(* from_dm_json -> from_json_filepaths -> from_json_metadata.  `fs` is the *)
(* set of files in components/primitive_jsons.  Opening a file, choosing a *)
(* parser and building a block are logged.                                 *)
(***************************************************************************)
JsonPath(json_name) == "primitive_jsons/" \o json_name \o ".json"

AllFiles == {JsonPath(n) : n \in JsonNames}

StartsWith(str, prefix) ==
    /\ Len(str) >= Len(prefix)
    /\ \A i \in DOMAIN prefix : str[i] = prefix[i]

\* json.load(f): what each file holds ('class' as its characters)
Metadata(path) ==
    CASE path = JsonPath("p") ->
            [class |-> <<"s", "k", "l", ".", "P">>,
             block |-> Block("a", EmptyMap, Put(EmptyMap, "_b", HP("a", "_b", 0)))]
      [] path = JsonPath("q") ->
            [class |-> <<"s", "k", "l", ".", "Q">>,
             block |-> Block("a_", EmptyMap, Put(EmptyMap, "b", HP("a_", "b", 1)))]
      [] path = JsonPath("r") ->
            [class |-> <<"k", "e", "r", "a", "s", ".", "R">>,
             block |-> Block("a_", Put(EmptyMap, "k", 1), EmptyMap)]
      [] OTHER ->
            [class |-> <<"k", "e", "r", ".", "S">>,
             block |-> Block("a", Put(EmptyMap, "k", 0),
                             Put(EmptyMap, "b", HP("a", "b", 0)))]

_get_parser(json_block_metadata) ==
    IF StartsWith(json_block_metadata.class, <<"k", "e", "r", "a", "s">>)
    THEN "KerasJsonParser" ELSE "MLJsonParser"

Event(kind, what) == [kind |-> kind, what |-> what]

build_mlblock(json_block_metadata) == json_block_metadata.block

RECURSIVE MetadataLoop(_, _, _, _)
MetadataLoop(json_metadata, block_steps, log, i) ==
    IF i > Len(json_metadata) THEN [block_steps |-> block_steps, io |-> log]
    ELSE MetadataLoop(json_metadata,
                      Append(block_steps, build_mlblock(json_metadata[i])),
                      log \o <<Event("parser", _get_parser(json_metadata[i])),
                               Event("build", json_metadata[i].block.name)>>,
                      i + 1)

from_json_metadata(json_metadata, log) ==
    LET r == MetadataLoop(json_metadata, <<>>, log, 1) IN
    [pipeline |-> MLPipelineInit(r.block_steps, None), io |-> r.io,
     status |-> "ok", err |-> ""]

from_json_filepaths(json_filepath_list) ==
    from_json_metadata([i \in DOMAIN json_filepath_list |-> Metadata(json_filepath_list[i])],
                       [i \in DOMAIN json_filepath_list |->
                            Event("open", json_filepath_list[i])])

isfile(fs, path) == path \in fs

RECURSIVE DmJsonLoop(_, _, _, _)
DmJsonLoop(fs, json_names, json_filepaths, i) ==
    IF i > Len(json_names) THEN from_json_filepaths(json_filepaths)
    ELSE IF ~isfile(fs, JsonPath(json_names[i]))
    THEN [pipeline |-> MLPipelineInit(<<>>, None), io |-> <<>>,
          status |-> "ValueError", err |-> json_names[i]]
    ELSE DmJsonLoop(fs, json_names, Append(json_filepaths, JsonPath(json_names[i])), i + 1)

\* a load that does not look for the files first
from_dm_json_unchecked(fs, json_names) ==
    from_json_filepaths([i \in DOMAIN json_names |-> JsonPath(json_names[i])])

from_dm_json(fs, json_names) == DmJsonLoop(fs, json_names, <<>>, 1)

(***************************************************************************)
(* State machine                                                           *)
(***************************************************************************)
NoCall == [op |-> "none", status |-> "ok", err |-> "", args |-> <<>>, ret |-> <<>>]

Call(op, args, status, err, ret) ==
    [op |-> op, status |-> status, err |-> err, args |-> args, ret |-> ret]

Built == last.op # "none"

Init ==
    /\ steps_dict = <<>>
    /\ dataflow = <<>>
    /\ files = {}
    /\ last = NoCall
    /\ calls = <<>>
    /\ rebuilds = <<>>
    /\ io = <<>>

\* the step lists a pipeline is made from: the names pairwise distinct
StepLists ==
    {steps \in SeqsUpTo(Blocks, 1, MaxSteps) :
        \A i, j \in DOMAIN steps : i # j => steps[i].name # steps[j].name}

\* p = MLPipeline(steps)
New ==
    /\ ~Built
    /\ \E steps \in StepLists :
          LET p == MLPipelineInit(steps, None) IN
          /\ steps_dict' = p.steps_dict
          /\ dataflow' = p.dataflow
          /\ last' = Call("__init__", <<steps, None>>, "ok", "", <<>>)
    /\ UNCHANGED <<files, calls, rebuilds, io>>

\* p = MLPipeline(steps, []): steps that are declared and not in the dataflow
NewUnused ==
    /\ ~Built
    /\ \E steps \in StepLists :
          LET p == MLPipelineInit(steps, Some(<<>>)) IN
          /\ steps_dict' = p.steps_dict
          /\ dataflow' = p.dataflow
          /\ last' = Call("__init__", <<steps, Some(<<>>)>>, "ok", "", <<>>)
    /\ UNCHANGED <<files, calls, rebuilds, io>>

FixedEntry(s, p, v) == [step_name |-> s, param_name |-> p, value |-> v]

\* the items offered to update_fixed_hyperparams
FixedEntries ==
    {FixedEntry("a", "k", 0), FixedEntry("a", "k", 1), FixedEntry("a", "m", 1),
     FixedEntry("a_", "k", 0)}

DistinctKeys(entries) ==
    \A i, j \in DOMAIN entries :
        i # j => <<entries[i].step_name, entries[i].param_name>>
                 # <<entries[j].step_name, entries[j].param_name>>

\* the dicts update_fixed_hyperparams is called with, as item lists
FixedDicts == {es \in SeqsUpTo(FixedEntries, 0, MaxEntries) : DistinctKeys(es)}

UpdateFixed ==
    /\ Built
    /\ \E entries \in FixedDicts :
          LET r == update_fixed_hyperparams(steps_dict, entries) IN
          /\ steps_dict' = r.steps_dict
          /\ rebuilds' = r.rebuilds
          /\ last' = Call("update_fixed_hyperparams", <<entries>>, r.status, r.err, <<>>)
    /\ UNCHANGED <<dataflow, files, calls, io>>

\* the MLHyperparams offered to update_tunable_hyperparams
HPInputs == {HP("a", "b", 1), HP("a", "_b", 1), HP("a_", "b", 0)}

\* the lists update_tunable_hyperparams is called with
HPLists == {hs \in SeqsUpTo(HPInputs, 0, MaxEntries) : DistinctKeys(hs)}

UpdateTunable ==
    /\ Built
    /\ \E hs \in HPLists :
          LET r == update_tunable_hyperparams(steps_dict, hs) IN
          /\ steps_dict' = r.steps_dict
          /\ rebuilds' = r.rebuilds
          /\ last' = Call("update_tunable_hyperparams", <<hs>>, r.status, r.err, <<>>)
    /\ UNCHANGED <<dataflow, files, calls, io>>

\* p.update_tunable_hyperparams(p.get_tunable_hyperparams())
Reapply ==
    /\ Built
    /\ LET hs == get_tunable_hyperparams(steps_dict)
           r == update_tunable_hyperparams(steps_dict, hs) IN
          /\ steps_dict' = r.steps_dict
          /\ rebuilds' = r.rebuilds
          /\ last' = Call("reapply", <<hs>>, r.status, r.err, <<>>)
    /\ UNCHANGED <<dataflow, files, calls, io>>

HyperparamDicts == UNION {[S -> Values] : S \in SUBSET TunableNames}

SetFromHyperparamDict ==
    /\ Built
    /\ \E d \in HyperparamDicts :
          LET r == set_from_hyperparam_dict(steps_dict, d) IN
          /\ steps_dict' = r.steps_dict
          /\ rebuilds' = r.rebuilds
          /\ last' = Call("set_from_hyperparam_dict", <<d>>, r.status, r.err, <<>>)
    /\ UNCHANGED <<dataflow, files, calls, io>>

NextHP == New \/ NewUnused \/ UpdateFixed \/ UpdateTunable \/ Reapply \/ SetFromHyperparamDict

SpecHP == Init /\ [][NextHP]_vars

(***************************************************************************)
(* Running a pipeline                                                      *)
(***************************************************************************)
Dataflows == SeqsUpTo(StepNames, 0, MaxFlow)

\* p = MLPipeline(steps, dataflow)
NewWithDataflow ==
    /\ ~Built
    /\ \E steps \in StepLists, flow \in Dataflows :
          LET p == MLPipelineInit(steps, Some(flow)) IN
          /\ steps_dict' = p.steps_dict
          /\ dataflow' = p.dataflow
          /\ last' = Call("__init__", <<steps, Some(flow)>>, "ok", "", <<>>)
    /\ UNCHANGED <<files, calls, rebuilds, io>>

FitEntries == {FixedEntry(s, p, v) : s \in StepNames, p \in FitParamNames, v \in Values}

FitParamDicts == {es \in SeqsUpTo(FitEntries, 0, MaxEntries) : DistinctKeys(es)}

Fit ==
    /\ Built
    /\ \E x \in Inputs, y \in Labels, fit_params \in FitParamDicts :
          LET r == fit(steps_dict, dataflow, x, y, fit_params) IN
          /\ calls' = r.calls
          /\ last' = Call("fit", <<x, y, fit_params>>, r.status, r.err, r.ret)
    /\ UNCHANGED <<steps_dict, dataflow, files, rebuilds, io>>

Predict ==
    /\ Built
    /\ \E x \in Inputs :
          LET r == predict(steps_dict, dataflow, x) IN
          /\ calls' = r.calls
          /\ last' = Call("predict", <<x>>, r.status, r.err, r.ret)
    /\ UNCHANGED <<steps_dict, dataflow, files, rebuilds, io>>

NextRun == New \/ NewWithDataflow \/ Fit \/ Predict

SpecRun == Init /\ [][NextRun]_vars

(***************************************************************************)
(* Loading a pipeline by primitive names                                   *)
(***************************************************************************)
InitLoad ==
    /\ steps_dict = <<>>
    /\ dataflow = <<>>
    /\ files \in SUBSET AllFiles
    /\ last = NoCall
    /\ calls = <<>>
    /\ rebuilds = <<>>
    /\ io = <<>>

FromDmJson ==
    /\ ~Built
    /\ \E json_names \in SeqsUpTo(JsonNames, 0, MaxNames) :
          LET r == from_dm_json(files, json_names) IN
          /\ steps_dict' = r.pipeline.steps_dict
          /\ dataflow' = r.pipeline.dataflow
          /\ io' = r.io
          /\ last' = Call("from_dm_json", <<json_names>>, r.status, r.err, <<>>)
    /\ UNCHANGED <<files, calls, rebuilds>>

SpecLoad == InitLoad /\ [][FromDmJson]_vars

(***************************************************************************)
(* The whole machine.  The hyperparameter methods read and write           *)
(* steps_dict only, fit and predict read steps_dict and dataflow and write *)
(* neither, and from_dm_json is a constructor: the properties below are    *)
(* checked under SpecHP, SpecRun and SpecLoad, one per group of methods.   *)
(***************************************************************************)
Next ==
    \/ New \/ NewUnused \/ NewWithDataflow \/ FromDmJson
    \/ UpdateFixed \/ UpdateTunable \/ Reapply \/ SetFromHyperparamDict
    \/ Fit \/ Predict

Spec == InitLoad /\ [][Next]_vars

(***************************************************************************)
(* Properties                                                              *)
(***************************************************************************)
Min(S) == CHOOSE m \in S : \A n \in S : m <= n

Max(S) == CHOOSE m \in S : \A n \in S : m >= n

\* C1: predict(x) calls produce on the steps in exactly the order of the
\* dataflow, once per occurrence, never calls fit, feeds each step the previous
\* step's produce output (the first step gets x), and returns the last step's
\* produce output (all names of the dataflow being steps of the pipeline).
PredictFollowsDataflow ==
    (last.op = "predict" /\ Range(dataflow) \subseteq Keys(steps_dict)) =>
        /\ last.status = "ok"
        /\ Len(calls) = Len(dataflow)
        /\ \A i \in DOMAIN calls :
              /\ calls[i].op = "produce"
              /\ calls[i].step = dataflow[i]
              /\ calls[i].data = IF i = 1 THEN last.args[1] ELSE calls[i - 1].out
        /\ last.ret = Some(IF calls = <<>> THEN last.args[1] ELSE calls[Len(calls)].out)

\* C1 witness: a predict over an explicit dataflow that reverses the order in
\* which the steps were declared
PredictOverReversedDataflow ==
    /\ last.op = "predict"
    /\ last.status = "ok"
    /\ Len(steps_dict) = 2
    /\ dataflow = <<steps_dict[2].name, steps_dict[1].name>>
    /\ Len(calls) = 2

\* the keyword arguments fit_params holds for the step called name
KwargsFor(fit_params, name) ==
    LET mine == {j \in DOMAIN fit_params : fit_params[j].step_name = name} IN
    [p \in {fit_params[j].param_name : j \in mine} |->
        fit_params[CHOOSE j \in mine : fit_params[j].param_name = p].value]

\* C2: in fit(x, y, fit_params) the calls come in pairs, position by position
\* of the dataflow: fit then produce of the step at position N, both before any
\* call on the step at position N+1; each step is fitted on the previous step's
\* produce output (the first on x), with the labels y, and with exactly the
\* fit_params entries keyed by its name; a fit that succeeds has visited every
\* position.
FitIsSequential ==
    last.op = "fit" =>
        LET x == last.args[1]
            y == last.args[2]
            fit_params == last.args[3]
        IN
        /\ Len(calls) % 2 = 0
        /\ Len(calls) <= 2 * Len(dataflow)
        /\ last.status = "ok" => Len(calls) = 2 * Len(dataflow)
        /\ \A n \in 1..(Len(calls) \div 2) :
              LET f == calls[2 * n - 1]
                  p == calls[2 * n]
              IN
              /\ f.op = "fit" /\ f.step = dataflow[n]
              /\ p.op = "produce" /\ p.step = dataflow[n]
              /\ f.data = IF n = 1 THEN x ELSE calls[2 * n - 2].out
              /\ p.data = f.data
              /\ f.y = y
              /\ f.kwargs = KwargsFor(fit_params, dataflow[n])

\* C2 witness: a successful fit over two different steps, one with fit
\* parameters and one without
FitWithParamsForOneStep ==
    /\ last.op = "fit"
    /\ last.status = "ok"
    /\ Len(dataflow) = 2
    /\ dataflow[1] # dataflow[2]
    /\ Len(calls) = 4
    /\ calls[1].kwargs = EmptyMap
    /\ calls[3].kwargs # EmptyMap

\* C3: update_fixed_hyperparams with a mapping holding a key whose step name
\* is not in steps_dict fails with a lookup error and leaves the fixed
\* hyperparameters and the model of every step as they were.
UpdateFixedFailsWithoutChange ==
    [][(/\ last'.op = "update_fixed_hyperparams"
        /\ \E i \in DOMAIN last'.args[1] : last'.args[1][i].step_name \notin Keys(steps_dict))
       => (last'.status = "KeyError" /\ steps_dict' = steps_dict)]_vars

\* C4 as stated: update_tunable_hyperparams(get_tunable_hyperparams()) leaves
\* every tunable hyperparameter and the keyword arguments every step's model
\* is built from unchanged.
ReapplyChangesNothing ==
    [][last'.op = "reapply" =>
        \A i \in DOMAIN steps_dict :
            /\ steps_dict'[i].tunable_hyperparams = steps_dict[i].tunable_hyperparams
            /\ steps_dict'[i].model = steps_dict[i].model]_vars

\* C4 amended: update_tunable_hyperparams(get_tunable_hyperparams()) succeeds,
\* leaves every step's name, fixed and tunable hyperparameters unchanged, and
\* leaves every step's model built from exactly its tunable hyperparameters and
\* nothing else; so a model's keyword arguments are unchanged exactly when
\* they were the step's tunable hyperparameters already.
ReapplyKeepsValuesAndDropsFixed ==
    [][last'.op = "reapply" =>
        /\ last'.status = "ok"
        /\ Len(steps_dict') = Len(steps_dict)
        /\ \A i \in DOMAIN steps_dict :
            /\ steps_dict'[i].name = steps_dict[i].name
            /\ steps_dict'[i].fixed_hyperparams = steps_dict[i].fixed_hyperparams
            /\ steps_dict'[i].tunable_hyperparams = steps_dict[i].tunable_hyperparams
            /\ steps_dict'[i].model = Kwargs(EmptyMap, steps_dict[i].tunable_hyperparams)
            /\ (steps_dict'[i].model = steps_dict[i].model) <=>
                   (steps_dict[i].model = Kwargs(EmptyMap, steps_dict[i].tunable_hyperparams))]_vars

\* C4 witness: the call was made on a step that has fixed and tunable
\* hyperparameters
ReappliedWithFixedPresent ==
    /\ last.op = "reapply"
    /\ \E i \in DOMAIN steps_dict :
          /\ steps_dict[i].fixed_hyperparams # EmptyMap
          /\ steps_dict[i].tunable_hyperparams # EmptyMap

\* C5: after update_fixed_hyperparams({(s, p): v}) on an existing step s,
\* get_fixed_hyperparams() has v at (s, p) and every other key is present or
\* absent, and valued, as before.
UpdateFixedSetsOnlyItsKey ==
    [][(/\ last'.op = "update_fixed_hyperparams"
        /\ Len(last'.args[1]) = 1
        /\ last'.args[1][1].step_name \in Keys(steps_dict))
       => LET e == last'.args[1][1]
              key == <<e.step_name, e.param_name>>
              before == get_fixed_hyperparams(steps_dict)
              after == get_fixed_hyperparams(steps_dict')
          IN
          /\ last'.status = "ok"
          /\ key \in DOMAIN after
          /\ after[key] = e.value
          /\ DOMAIN after = (DOMAIN before) \cup {key}
          /\ \A other \in (DOMAIN after) \ {key} : after[other] = before[other]]_vars

\* C5 witness: one fixed hyperparameter was set on a step that has another
\* one, in a pipeline where the other step has one too
UpdatedOneFixedAmongOthers ==
    /\ last.op = "update_fixed_hyperparams"
    /\ last.status = "ok"
    /\ last.args[1] = <<FixedEntry("a", "k", 1)>>
    /\ {<<"a", "k">>, <<"a", "m">>, <<"a_", "k">>} \subseteq DOMAIN get_fixed_hyperparams(steps_dict)

\* C6: after set_from_hyperparam_dict(d) every tunable hyperparameter of every
\* step whose param_name is a key of d has value d[param_name], and every
\* other tunable hyperparameter keeps its value.
SetFromDictBroadcasts ==
    [][last'.op = "set_from_hyperparam_dict" =>
        LET d == last'.args[1] IN
        /\ last'.status = "ok"
        /\ Len(steps_dict') = Len(steps_dict)
        /\ \A i \in DOMAIN steps_dict :
            /\ steps_dict'[i].name = steps_dict[i].name
            /\ DOMAIN steps_dict'[i].tunable_hyperparams
                   = DOMAIN steps_dict[i].tunable_hyperparams
            /\ \A p \in DOMAIN steps_dict[i].tunable_hyperparams :
                  LET old == steps_dict[i].tunable_hyperparams[p]
                      new == steps_dict'[i].tunable_hyperparams[p]
                  IN
                  /\ new.step_name = old.step_name
                  /\ new.param_name = old.param_name
                  /\ new.value = IF old.param_name \in DOMAIN d
                                 THEN d[old.param_name] ELSE old.value]_vars

\* C6 witness: a dict naming only "b" was set on a pipeline whose two steps
\* both have a tunable "b", one of them a tunable "_b" as well
BroadcastToTwoSteps ==
    /\ last.op = "set_from_hyperparam_dict"
    /\ DOMAIN last.args[1] = {"b"}
    /\ Len(steps_dict) = 2
    /\ \A i \in DOMAIN steps_dict :
          /\ "b" \in DOMAIN steps_dict[i].tunable_hyperparams
          /\ steps_dict[i].tunable_hyperparams["b"].value = last.args[1]["b"]
    /\ \E i \in DOMAIN steps_dict :
          /\ "_b" \in DOMAIN steps_dict[i].tunable_hyperparams
          /\ steps_dict[i].tunable_hyperparams["_b"].value # last.args[1]["b"]

\* every tunable hyperparameter of the pipeline
AllTunable(sd) ==
    UNION {{sd[i].tunable_hyperparams[p] : p \in DOMAIN sd[i].tunable_hyperparams} :
           i \in DOMAIN sd}

\* C7: to_dict() maps, for every tunable hyperparameter h of every step, the
\* key step_name + "__" + param_name to h's value, and has no other keys.
ToDictHasEveryTunable ==
    Built =>
        LET d == to_dict(steps_dict) IN
        /\ DOMAIN d = {FormatKey(h.step_name, h.param_name) : h \in AllTunable(steps_dict)}
        /\ \A h \in AllTunable(steps_dict) :
              d[FormatKey(h.step_name, h.param_name)] = h.value

\* the positions of the names that have no file
MissingAt(names) == {i \in DOMAIN names : ~isfile(files, JsonPath(names[i]))}

\* C8: from_dm_json with a name that has no metadata file fails with an error
\* naming the first such name, and no file was opened, no parser chosen and no
\* step built, wherever the name stands in the list.
MissingJsonFailsFirst ==
    (last.op = "from_dm_json" /\ MissingAt(last.args[1]) # {}) =>
        /\ last.status = "ValueError"
        /\ last.err = last.args[1][Min(MissingAt(last.args[1]))]
        /\ io = <<>>
        /\ steps_dict = <<>>
        /\ dataflow = <<>>

\* C8 witness: the second name of the list is the missing one
SecondNameMissing ==
    /\ last.op = "from_dm_json"
    /\ MissingAt(last.args[1]) = {2}
    /\ last.status = "ValueError"

\* C9: once a pipeline is constructed every name in dataflow is a key of
\* steps_dict, and fit and predict change neither the keys of steps_dict nor
\* dataflow.
DataflowNamesAreSteps ==
    [][/\ Built' => Range(dataflow') \subseteq Keys(steps_dict')
       /\ last'.op \in {"fit", "predict"} =>
             (Keys(steps_dict') = Keys(steps_dict) /\ dataflow' = dataflow)]_vars

\* the last item of hs with the key of hs[j]
LastFor(hs, j) ==
    hs[Max({n \in DOMAIN hs : /\ hs[n].step_name = hs[j].step_name
                              /\ hs[n].param_name = hs[j].param_name})]

\* the items of a failed update_fixed_hyperparams that were reached
Reached(entries, sd) ==
    LET missing == {i \in DOMAIN entries : entries[i].step_name \notin Keys(sd)} IN
    IF missing = {} THEN Len(entries) ELSE Min(missing) - 1

\* C10: a successful update_tunable_hyperparams(hs) has applied every
\* overwrite of hs and then rebuilt the model of every step of steps_dict,
\* each once, from that step's tunable hyperparameters as they are after all
\* the overwrites and from no fixed hyperparameter; update_fixed_hyperparams
\* rebuilds the step of each entry, once per entry, from its fixed and tunable
\* hyperparameters.
RebuildsFollowTheUpdate ==
    /\ (last.op = "update_tunable_hyperparams" /\ last.status = "ok") =>
          LET hs == last.args[1] IN
          /\ \A j \in DOMAIN hs :
                Lookup(steps_dict, hs[j].step_name).tunable_hyperparams[hs[j].param_name]
                    = LastFor(hs, j)
          /\ Len(rebuilds) = Len(steps_dict)
          /\ \A i \in DOMAIN steps_dict :
                /\ rebuilds[i].step = steps_dict[i].name
                /\ rebuilds[i].via = "__class__"
                /\ rebuilds[i].kwargs = Kwargs(EmptyMap, steps_dict[i].tunable_hyperparams)
                /\ steps_dict[i].model = rebuilds[i].kwargs
    /\ last.op = "update_fixed_hyperparams" =>
          LET entries == last.args[1] IN
          /\ Len(rebuilds) = Reached(entries, steps_dict)
          /\ \A j \in DOMAIN rebuilds :
                LET step == Lookup(steps_dict, entries[j].step_name) IN
                /\ rebuilds[j].step = entries[j].step_name
                /\ rebuilds[j].via = "update_model"
                /\ rebuilds[j].kwargs.tunable = step.tunable_hyperparams
                /\ entries[j].param_name \in DOMAIN rebuilds[j].kwargs.fixed
                /\ rebuilds[j].kwargs.fixed[entries[j].param_name] = entries[j].value
                /\ \A q \in DOMAIN rebuilds[j].kwargs.fixed :
                      (\A n \in DOMAIN rebuilds :
                          n > j => <<entries[n].step_name, entries[n].param_name>>
                                   # <<entries[j].step_name, q>>)
                      => /\ q \in DOMAIN step.fixed_hyperparams
                         /\ rebuilds[j].kwargs.fixed[q] = step.fixed_hyperparams[q]

\* C10 witness: a successful tunable update of one step in a pipeline of two
\* that has neither in its dataflow, the other step holding fixed
\* hyperparameters
TunableUpdateRebuiltAll ==
    /\ last.op = "update_tunable_hyperparams"
    /\ last.status = "ok"
    /\ dataflow = <<>>
    /\ Len(last.args[1]) = 2
    /\ Len(steps_dict) = 2
    /\ \E i \in DOMAIN steps_dict :
          /\ steps_dict[i].fixed_hyperparams # EmptyMap
          /\ \A j \in DOMAIN last.args[1] : last.args[1][j].step_name # steps_dict[i].name

====
